---- MODULE Spec2Model ----
(***************************************************************************)
(* Model of scraper/megaleiloes_monitor.py: one monitoring run of          *)
(* MegaLeiloesMonitor (load the stored items and their last snapshots,     *)
(* scrape the sections, match every scraped listing against the stored     *)
(* index and build its snapshot and base-record update, insert the         *)
(* snapshots in chunks, update the base records one by one, print the      *)
(* statistics).                                                            *)
(*                                                                         *)
(* Python values: None is the empty tuple and a present value v is <<v>>;  *)
(* a dict is a function whose DOMAIN is the set of its keys, so d[k] on a  *)
(* missing key (KeyError) and d.get(k, default) are told apart.  Decimals  *)
(* are integers, an exact quotient n/d is the pair <<n, d>>.  Time is in   *)
(* whole hours; an ISO-8601 string is the record of its wall-clock time,   *)
(* its UTC offset and whether datetime.fromisoformat accepts it.  A URL is *)
(* a sequence of tokens: "h" is the scheme and host prefix, "/" and "?"    *)
(* are themselves, any other token is a path or query segment.             *)
(***************************************************************************)
EXTENDS Integers, Sequences, FiniteSets, TLC

VARIABLES
    pc,               \* position of run(): load_items, load_snaps, scrape, match,
                      \* insert, update, summary, done, aborted
    items_table,      \* the store's auctions.megaleiloes_items rows (response order)
    monitoring_table, \* the store's megaleiloes_monitoring rows, snapshot_at descending
    now,              \* the clock, in hours
    db_items_by_link, \* self.db_items_by_link
    db_items_by_id,   \* self.db_items_by_id
    last_snapshots,   \* self.last_snapshots
    section,          \* index of the next section _scrape_all_sections visits
    scraped_data,     \* all_items / scraped_data
    idx,              \* index of the next scraped_item of the match loop
    snapshots_batch,  \* snapshots_batch
    updates_batch,    \* updates_batch
    i,                \* loop variable i of _insert_snapshots_batch
    insert_calls,     \* the bulk-insert calls issued: <<offset, ok>> each
    inserted,         \* the snapshots the store accepted
    update_calls,     \* the ids of the update-by-id calls issued
    updated,          \* the updates the store accepted
    stats             \* self.stats

vars == <<pc, items_table, monitoring_table, now, db_items_by_link, db_items_by_id,
          last_snapshots, section, scraped_data, idx, snapshots_batch, updates_batch,
          i, insert_calls, inserted, update_calls, updated, stats>>

----------------------------------------------------------------------------
(* Bounds of the model *)

\* the scrape yields at most this many listings in all
MaxScraped == 5
\* the clock of the match of one listing reads 0..MaxNow; a run starts at 0
MaxNow == 1
\* batch_size of _insert_snapshots_batch, 500 in the source, scaled down so that
\* a batch of MaxScraped snapshots spans three chunks
batch_size == 2

(* Program constants *)

\* len(self.sections)
NumSections == 6
\* the UTC offset of ZoneInfo('America/Sao_Paulo'), in hours
SaoPauloOffset == -3

----------------------------------------------------------------------------
(* Python values and dicts *)

None == <<>>
Some(x) == <<x>>
Val(v) == v[1]

\* d.get(k, default)
Get(d, k, default) == IF k \in DOMAIN d THEN d[k] ELSE default

\* bool(v) of an optional number: None and 0 are falsy
TruthyNum(v) == v # None /\ Val(v) # 0

\* bool(v) of an optional non-empty string
TruthyStr(v) == v # None

\* the dict d without the keys K
Drop(d, K) == [k \in (DOMAIN d) \ K |-> d[k]]

\* the exact quotient n / d
Frac(n, d) == <<n, d>>

\* round(n / d * 100, 2), in hundredths of a percent
RoundPct(n, d) == (2 * n * 10000 + d) \div (2 * d)

Last(s) == s[Len(s)]

----------------------------------------------------------------------------
(* Timestamps *)

IsoString(wall, off) == [wall |-> wall, off |-> off, ok |-> TRUE]

\* the instant an ISO string denotes, in hours UTC
Instant(d) == d.wall - d.off

\* convert_brazilian_datetime_to_postgres: strptime fails on an impossible date,
\* else the wall-clock time is stamped with the Sao Paulo offset
convert_brazilian_datetime_to_postgres(date_text) ==
    IF date_text.valid THEN Some(IsoString(date_text.wall, SaoPauloOffset)) ELSE None

----------------------------------------------------------------------------
(* Identity normalizer *)

RECURSIVE BeforeQuery(_)
\* link.split('?')[0]
BeforeQuery(link) ==
    IF link = <<>> \/ Head(link) = "?" THEN <<>>
    ELSE <<Head(link)>> \o BeforeQuery(Tail(link))

RECURSIVE RStripSlash(_)
\* link.rstrip('/'): every trailing slash goes
RStripSlash(link) ==
    IF link # <<>> /\ Last(link) = "/" THEN RStripSlash(SubSeq(link, 1, Len(link) - 1))
    ELSE link

\* a normalizer that strips one trailing slash only
Normalize_StripOne(link) ==
    LET path == BeforeQuery(link)
    IN  IF path # <<>> /\ Last(path) = "/" THEN SubSeq(path, 1, Len(path) - 1) ELSE path

Normalize(link) == RStripSlash(BeforeQuery(link))

base_url == <<"h">>

----------------------------------------------------------------------------
(* Card parsing.  A card is what the selectors of _parse_card find in it:     *)
(* href (None: no a[href]), active (None: no .instance.active; else the round *)
(* its date element tells, 0 for none, its date text, None when the pattern   *)
(* does not match, and its value), first_passed (None: no                     *)
(* .instance.first.passed), bids (None: no bid counter) and closed (the text  *)
(* says 'encerrado' or 'finalizado').                                         *)

Contains(s, c) == \E n \in 1..Len(s) : s[n] = c

\* _extract_has_bid
ExtractHasBid(card) == card.bids # None /\ Val(card.bids) > 0

\* the round and the date of the active instance
ActiveRound(card) ==
    IF card.active # None /\ Val(card.active).round # 0
    THEN Some(Val(card.active).round) ELSE None

ActiveDate(card) ==
    IF card.active # None /\ Val(card.active).round # 0 /\ Val(card.active).date # None
    THEN convert_brazilian_datetime_to_postgres(Val(Val(card.active).date))
    ELSE None

\* _extract_auction_info_from_html
ExtractAuctionInfo(card) ==
    LET current_value == IF card.active # None THEN Val(card.active).value ELSE None
        first_round_value ==
            IF card.first_passed # None THEN Val(card.first_passed).value ELSE None
        first_round_date ==
            IF card.first_passed # None /\ Val(card.first_passed).date # None
            THEN convert_brazilian_datetime_to_postgres(Val(Val(card.first_passed).date))
            ELSE None
    IN  [auction_round |-> ActiveRound(card),
         auction_date |-> ActiveDate(card),
         current_value |-> current_value,
         first_round_value |-> first_round_value,
         first_round_date |-> first_round_date,
         discount_percentage |->
            IF TruthyNum(first_round_value) /\ TruthyNum(current_value)
               /\ ActiveRound(card) = Some(2)
            THEN Some(RoundPct(Val(first_round_value) - Val(current_value),
                               Val(first_round_value)))
            ELSE None]

\* the link of a card, made absolute and normalized
CardLink(href) ==
    Normalize(IF href # <<>> /\ Head(href) = "h" THEN href ELSE base_url \o href)

\* _parse_card: None, or the scraped item
ParseCard(card) ==
    IF card.href = None \/ Val(card.href) = <<>> \/ Contains(Val(card.href), "j")
    THEN None
    ELSE LET info == ExtractAuctionInfo(card)
         IN  Some([link |-> CardLink(Val(card.href)),
                   value |-> info.current_value,
                   has_bid |-> Some(ExtractHasBid(card)),
                   auction_round |-> info.auction_round,
                   auction_date |-> info.auction_date,
                   first_round_value |-> info.first_round_value,
                   first_round_date |-> info.first_round_date,
                   discount_percentage |-> info.discount_percentage,
                   is_active |-> Some(~card.closed)])

RECURSIVE ParseCards(_)
\* the items of a page's cards, those that parse
ParseCards(cards) ==
    IF cards = <<>> THEN <<>>
    ELSE (IF ParseCard(Head(cards)) = None THEN <<>> ELSE <<Val(ParseCard(Head(cards)))>>)
         \o ParseCards(Tail(cards))

----------------------------------------------------------------------------
(* Snapshot construction *)

\* the keys _create_snapshot subscripts on the last snapshot
BaselineKeys == {"current_value", "has_bid", "auction_round", "auction_date", "is_active"}

\* old_value, old_has_bid, old_round, old_auction_date, old_is_active of
\* _create_snapshot: None when a subscript raises KeyError
ResolveBaseline(db_item, last_snap) ==
    IF last_snap # None
    THEN IF BaselineKeys \subseteq DOMAIN Val(last_snap)
         THEN Some([current_value |-> Val(last_snap)["current_value"],
                    has_bid |-> Val(last_snap)["has_bid"],
                    auction_round |-> Val(last_snap)["auction_round"],
                    auction_date |-> Val(last_snap)["auction_date"],
                    is_active |-> Val(last_snap)["is_active"]])
         ELSE None
    ELSE Some([current_value |-> Get(db_item, "value", None),
               has_bid |-> Get(db_item, "has_bid", Some(FALSE)),
               auction_round |-> Get(db_item, "auction_round", None),
               auction_date |-> Get(db_item, "auction_date", None),
               is_active |-> Get(db_item, "is_active", Some(TRUE))])

\* value_change
ValueChange(old_value, new_value) ==
    IF TruthyNum(old_value) /\ TruthyNum(new_value)
    THEN Some(Val(new_value) - Val(old_value)) ELSE None

\* value_change_percentage
ValueChangePercentage(old_value, new_value) ==
    IF TruthyNum(old_value) /\ TruthyNum(new_value) /\ Val(old_value) > 0
    THEN Some(Frac((Val(new_value) - Val(old_value)) * 100, Val(old_value))) ELSE None

\* discount_from_first_round
DiscountFromFirstRound(first_round_value, new_value) ==
    IF TruthyNum(first_round_value) /\ TruthyNum(new_value) /\ Val(first_round_value) > 0
    THEN Some(Frac((Val(first_round_value) - Val(new_value)) * 100, Val(first_round_value)))
    ELSE None

\* days_until_auction: timedelta.days is the floor of the difference in days
DaysUntilAuction(auction_date, t) ==
    IF TruthyStr(auction_date) /\ Val(auction_date).ok
    THEN Some((Instant(Val(auction_date)) - t) \div 24) ELSE None

\* hours_since_last_snapshot
HoursSinceLast(last_snap, t) ==
    IF last_snap # None /\ TruthyStr(Get(Val(last_snap), "snapshot_at", None))
       /\ Val(Val(last_snap)["snapshot_at"]).ok
    THEN Some(t - Instant(Val(Val(last_snap)["snapshot_at"]))) ELSE None

\* value_velocity
ValueVelocity(value_change, hours_since_last) ==
    IF TruthyNum(value_change) /\ TruthyNum(hours_since_last) /\ Val(hours_since_last) > 0
    THEN Some(Frac(Val(value_change), Val(hours_since_last))) ELSE None

\* _create_snapshot at clock t: None when it raises (a KeyError on the last
\* snapshot or on db_item['external_id']), else the snapshot
CreateSnapshot(db_item, scraped_item, last_snap, t) ==
    LET old == ResolveBaseline(db_item, last_snap)
        new_value == scraped_item.value
        value_change == ValueChange(Val(old).current_value, new_value)
        hours_since_last == HoursSinceLast(last_snap, t)
    IN  IF old = None \/ "external_id" \notin DOMAIN db_item
        THEN None
        ELSE Some([item_id |-> db_item["id"],
                   external_id |-> db_item["external_id"],
                   snapshot_at |-> IsoString(t, 0),
                   days_until_auction |-> DaysUntilAuction(scraped_item.auction_date, t),
                   current_value |-> new_value,
                   value_change |-> value_change,
                   value_change_percentage |->
                       ValueChangePercentage(Val(old).current_value, new_value),
                   first_round_value |-> scraped_item.first_round_value,
                   discount_from_first_round |->
                       DiscountFromFirstRound(scraped_item.first_round_value, new_value),
                   has_bid |-> scraped_item.has_bid,
                   bid_status_changed |-> scraped_item.has_bid # Val(old).has_bid,
                   auction_round |-> scraped_item.auction_round,
                   round_changed |-> scraped_item.auction_round # Val(old).auction_round,
                   auction_date |-> scraped_item.auction_date,
                   auction_date_changed |->
                       scraped_item.auction_date # Val(old).auction_date,
                   is_active |-> scraped_item.is_active,
                   status_changed |-> scraped_item.is_active # Val(old).is_active,
                   category |-> Get(db_item, "category", None),
                   city |-> Get(db_item, "city", None),
                   state |-> Get(db_item, "state", None),
                   auction_type |-> Get(db_item, "auction_type", None),
                   hours_since_last_snapshot |-> hours_since_last,
                   value_velocity |-> ValueVelocity(value_change, hours_since_last),
                   metadata |-> "automated_monitoring"])

\* _create_update at clock t
CreateUpdate(db_item, scraped_item, t) ==
    Some([id |-> db_item["id"],
          value |-> scraped_item.value,
          has_bid |-> scraped_item.has_bid,
          auction_round |-> scraped_item.auction_round,
          auction_date |-> scraped_item.auction_date,
          first_round_value |-> scraped_item.first_round_value,
          first_round_date |-> scraped_item.first_round_date,
          discount_percentage |-> scraped_item.discount_percentage,
          is_active |-> scraped_item.is_active,
          updated_at |-> IsoString(t, 0),
          last_scraped_at |-> IsoString(t, 0)])

----------------------------------------------------------------------------
(* The run *)

ZeroStats ==
    [items_scraped |-> 0, items_matched |-> 0, items_new |-> 0, snapshots_created |-> 0,
     items_updated |-> 0, bid_changes |-> 0, value_changes |-> 0, status_changes |-> 0,
     pages_scraped |-> 0, errors |-> 0]

\* d[k] = v
Put(d, k, v) == [x \in (DOMAIN d) \cup {k} |-> IF x = k THEN v ELSE d[x]]

Min(a, b) == IF a < b THEN a ELSE b

RECURSIVE IndexByLink(_, _)
\* db_items_by_link after the rows: a later row of the same link replaces an earlier
IndexByLink(rows, m) ==
    IF rows = <<>> THEN m
    ELSE IndexByLink(Tail(rows),
                     Put(m, Normalize(Val(Get(Head(rows), "link", Some(<<>>)))), Head(rows)))

RECURSIVE IndexById(_, _)
\* db_items_by_id after the rows
IndexById(rows, m) ==
    IF rows = <<>> THEN m ELSE IndexById(Tail(rows), Put(m, Head(rows)["id"], Head(rows)))

\* _load_database_items, the fetch fails: the exception is re-raised and run() ends
LoadDatabaseItemsFail ==
    /\ pc = "load_items"
    /\ pc' = "aborted"
    /\ UNCHANGED <<items_table, monitoring_table, now, db_items_by_link, db_items_by_id,
                   last_snapshots, section, scraped_data, idx, snapshots_batch,
                   updates_batch, i, insert_calls, inserted, update_calls, updated, stats>>

\* _load_database_items: a row whose link is null raises inside the try (None has
\* no split) and ends the run like a failed fetch
LoadDatabaseItems ==
    /\ pc = "load_items"
    /\ IF \E n \in 1..Len(items_table) : Get(items_table[n], "link", Some(<<>>)) = None
       THEN /\ pc' = "aborted"
            /\ UNCHANGED <<db_items_by_link, db_items_by_id>>
       ELSE /\ pc' = "load_snaps"
            /\ db_items_by_link' = IndexByLink(items_table, db_items_by_link)
            /\ db_items_by_id' = IndexById(items_table, db_items_by_id)
    /\ UNCHANGED <<items_table, monitoring_table, now, last_snapshots, section,
                   scraped_data, idx, snapshots_batch, updates_batch, i, insert_calls,
                   inserted, update_calls, updated, stats>>

RECURSIVE FirstSeen(_, _, _)
\* last_snapshots after the response rows: the first row of each item_id among ids
FirstSeen(rows, ids, m) ==
    IF rows = <<>> THEN m
    ELSE FirstSeen(Tail(rows), ids,
                   IF Head(rows)["item_id"] \in ids /\ Head(rows)["item_id"] \notin DOMAIN m
                   THEN Put(m, Head(rows)["item_id"], Head(rows)) ELSE m)

\* LoadLastSnapshotsFail with the except clause re-raising, as that of
\* _load_database_items does
LoadLastSnapshotsFail_Raise ==
    /\ pc = "load_snaps"
    /\ DOMAIN db_items_by_id # {}
    /\ pc' = "aborted"
    /\ UNCHANGED <<items_table, monitoring_table, now, db_items_by_link, db_items_by_id,
                   last_snapshots, section, scraped_data, idx, snapshots_batch,
                   updates_batch, i, insert_calls, inserted, update_calls, updated, stats>>

\* _load_last_snapshots, the query fails: reported, and the run goes on without
\* last snapshots
LoadLastSnapshotsFail ==
    /\ pc = "load_snaps"
    /\ DOMAIN db_items_by_id # {}
    /\ pc' = "scrape"
    /\ UNCHANGED <<items_table, monitoring_table, now, db_items_by_link, db_items_by_id,
                   last_snapshots, section, scraped_data, idx, snapshots_batch,
                   updates_batch, i, insert_calls, inserted, update_calls, updated, stats>>

\* _load_last_snapshots: nothing to load without stored items; else the ids (fewer
\* than the 1000 of one query here) are asked for in one query
LoadLastSnapshots ==
    /\ pc = "load_snaps"
    /\ last_snapshots' =
          IF DOMAIN db_items_by_id = {} THEN last_snapshots
          ELSE FirstSeen(monitoring_table, DOMAIN db_items_by_id, last_snapshots)
    /\ pc' = "scrape"
    /\ UNCHANGED <<items_table, monitoring_table, now, db_items_by_link, db_items_by_id,
                   section, scraped_data, idx, snapshots_batch, updates_batch, i,
                   insert_calls, inserted, update_calls, updated, stats>>

----------------------------------------------------------------------------
(* Scraping.  The site's cards are the environment; a section yields the cards *)
(* of the pages it could read, one card a page here, and a section that fails  *)
(* part-way yields those before the failure.                                   *)

Href(seg) == Some(<<"/", seg>>)

\* a card of the site: the listing of path segment seg, in its second round
SiteCard(seg, value, bids, closed) ==
    [href |-> Href(seg),
     active |-> Some([round |-> 2, date |-> Some([wall |-> 10, valid |-> TRUE]),
                      value |-> value]),
     first_passed |-> Some([date |-> Some([wall |-> 5, valid |-> TRUE]),
                            value |-> Some(200)]),
     bids |-> bids,
     closed |-> closed]

\* the cards a run can meet: the listings a and b are stored, c is not
SiteCards ==
    {SiteCard("a", Some(150), Some(1), FALSE),
     SiteCard("b", Some(100), Some(0), TRUE),
     SiteCard("c", Some(100), None, FALSE)}

\* a section yields at most this many cards
MaxPerSection == 1

\* the sequences of at most n cards
CardSeqs(n) == UNION {[1..m -> SiteCards] : m \in 0..n}

\* where run() goes after the match loop
PcAfterMatch(sb, ub) ==
    IF sb # <<>> THEN "insert" ELSE IF ub # <<>> THEN "update" ELSE "summary"

\* _scrape_all_sections, the browser cannot be started: nothing is scraped
ScrapeFail ==
    /\ pc = "scrape"
    /\ section = 1
    /\ section' = NumSections + 1
    /\ stats' = [stats EXCEPT !.items_scraped = 0]
    /\ pc' = "summary"
    /\ UNCHANGED <<items_table, monitoring_table, now, db_items_by_link, db_items_by_id,
                   last_snapshots, scraped_data, idx, snapshots_batch, updates_batch, i,
                   insert_calls, inserted, update_calls, updated>>

\* _scrape_section of the next section; after the last one items_scraped is set
\* and run() enters _process_matches_and_snapshots
ScrapeSection ==
    /\ pc = "scrape"
    /\ section <= NumSections
    /\ \E cards \in CardSeqs(Min(MaxPerSection, MaxScraped - Len(scraped_data))) :
          LET all_items == scraped_data \o ParseCards(cards)
              pages == stats.pages_scraped + Len(cards)
          IN  /\ scraped_data' = all_items
              /\ section' = section + 1
              /\ IF section = NumSections
                 THEN /\ stats' = [stats EXCEPT !.pages_scraped = pages,
                                                !.items_scraped = Len(all_items)]
                      /\ pc' = IF all_items = <<>> THEN "summary" ELSE "match"
                 ELSE /\ stats' = [stats EXCEPT !.pages_scraped = pages]
                      /\ pc' = "scrape"
    /\ UNCHANGED <<items_table, monitoring_table, now, db_items_by_link, db_items_by_id,
                   last_snapshots, idx, snapshots_batch, updates_batch, i, insert_calls,
                   inserted, update_calls, updated>>

----------------------------------------------------------------------------
(* The match loop of _process_matches_and_snapshots *)

\* self.last_snapshots.get(db_item['id'])
LastSnapOf(db_item) ==
    IF db_item["id"] \in DOMAIN last_snapshots
    THEN Some(last_snapshots[db_item["id"]]) ELSE None

\* the loop goes on, or ends and the batches decide what follows
PcAfterListing(sb, ub) ==
    IF idx = Len(scraped_data) THEN PcAfterMatch(sb, ub) ELSE "match"

\* ProcessUnmatched with items_matched counted before the lookup is tested
ProcessUnmatched_Counted ==
    /\ pc = "match"
    /\ idx <= Len(scraped_data)
    /\ scraped_data[idx].link \notin DOMAIN db_items_by_link
    /\ stats' = [stats EXCEPT !.items_new = @ + 1, !.items_matched = @ + 1]
    /\ idx' = idx + 1
    /\ pc' = PcAfterListing(snapshots_batch, updates_batch)
    /\ UNCHANGED <<items_table, monitoring_table, now, db_items_by_link, db_items_by_id,
                   last_snapshots, section, scraped_data, snapshots_batch, updates_batch,
                   i, insert_calls, inserted, update_calls, updated>>

\* the listing's link is not in the base: counted as new, and nothing else
ProcessUnmatched ==
    /\ pc = "match"
    /\ idx <= Len(scraped_data)
    /\ scraped_data[idx].link \notin DOMAIN db_items_by_link
    /\ stats' = [stats EXCEPT !.items_new = @ + 1]
    /\ idx' = idx + 1
    /\ pc' = PcAfterListing(snapshots_batch, updates_batch)
    /\ UNCHANGED <<items_table, monitoring_table, now, db_items_by_link, db_items_by_id,
                   last_snapshots, section, scraped_data, snapshots_batch, updates_batch,
                   i, insert_calls, inserted, update_calls, updated>>

\* MatchedStats with the match counted only when the snapshot was built
MatchedStats_Built(snapshot) ==
    IF snapshot = None
    THEN [stats EXCEPT !.errors = @ + 1]
    ELSE [stats EXCEPT
            !.items_matched = @ + 1,
            !.snapshots_created = @ + 1,
            !.bid_changes = IF Val(snapshot).bid_status_changed THEN @ + 1 ELSE @,
            !.value_changes = IF TruthyNum(Val(snapshot).value_change) THEN @ + 1 ELSE @,
            !.status_changes = IF Val(snapshot).status_changed THEN @ + 1 ELSE @]

\* the counters after a matched listing whose snapshot is snapshot (None: it raised)
MatchedStats(snapshot) ==
    IF snapshot = None
    THEN [stats EXCEPT !.items_matched = @ + 1, !.errors = @ + 1]
    ELSE [stats EXCEPT
            !.items_matched = @ + 1,
            !.snapshots_created = @ + 1,
            !.bid_changes = IF Val(snapshot).bid_status_changed THEN @ + 1 ELSE @,
            !.value_changes = IF TruthyNum(Val(snapshot).value_change) THEN @ + 1 ELSE @,
            !.status_changes = IF Val(snapshot).status_changed THEN @ + 1 ELSE @]

\* the listing's link is in the base: its snapshot, when it could be built, and
\* its update join the batches
ProcessMatched ==
    /\ pc = "match"
    /\ idx <= Len(scraped_data)
    /\ scraped_data[idx].link \in DOMAIN db_items_by_link
    /\ LET scraped_item == scraped_data[idx]
           db_item == db_items_by_link[scraped_item.link]
           snapshot == CreateSnapshot(db_item, scraped_item, LastSnapOf(db_item), now)
           update == CreateUpdate(db_item, scraped_item, now)
           sb == IF snapshot = None THEN snapshots_batch
                 ELSE Append(snapshots_batch, Val(snapshot))
           ub == Append(updates_batch, Val(update))
       IN  /\ stats' = MatchedStats(snapshot)
           /\ snapshots_batch' = sb
           /\ updates_batch' = ub
           /\ pc' = PcAfterListing(sb, ub)
    /\ idx' = idx + 1
    /\ UNCHANGED <<items_table, monitoring_table, now, db_items_by_link, db_items_by_id,
                   last_snapshots, section, scraped_data, i, insert_calls, inserted,
                   update_calls, updated>>

----------------------------------------------------------------------------
(* Persistence *)

\* batch = snapshots[i:i+batch_size]
Chunk(snapshots, offset) ==
    SubSeq(snapshots, offset + 1, Min(offset + batch_size, Len(snapshots)))

\* _insert_snapshots_batch, the insert of the chunk at i succeeds
InsertChunk ==
    /\ pc = "insert"
    /\ i < Len(snapshots_batch)
    /\ insert_calls' = Append(insert_calls, <<i, TRUE>>)
    /\ inserted' = inserted \o Chunk(snapshots_batch, i)
    /\ i' = i + batch_size
    /\ pc' = IF i + batch_size < Len(snapshots_batch) THEN "insert"
             ELSE IF updates_batch # <<>> THEN "update" ELSE "summary"
    /\ UNCHANGED <<items_table, monitoring_table, now, db_items_by_link, db_items_by_id,
                   last_snapshots, section, scraped_data, idx, snapshots_batch,
                   updates_batch, update_calls, updated, stats>>

\* InsertChunkFail with the failure let through to run(): the updates of the
\* base records are skipped
InsertChunkFail_SkipUpdates ==
    /\ pc = "insert"
    /\ i < Len(snapshots_batch)
    /\ insert_calls' = Append(insert_calls, <<i, FALSE>>)
    /\ stats' = [stats EXCEPT !.errors = @ + Len(snapshots_batch)]
    /\ pc' = "summary"
    /\ UNCHANGED <<items_table, monitoring_table, now, db_items_by_link, db_items_by_id,
                   last_snapshots, section, scraped_data, idx, snapshots_batch,
                   updates_batch, i, inserted, update_calls, updated>>

\* _insert_snapshots_batch, the insert of the chunk at i raises: the except
\* clause is outside the loop, so the loop ends and every snapshot of the batch
\* is counted as an error
InsertChunkFail ==
    /\ pc = "insert"
    /\ i < Len(snapshots_batch)
    /\ insert_calls' = Append(insert_calls, <<i, FALSE>>)
    /\ stats' = [stats EXCEPT !.errors = @ + Len(snapshots_batch)]
    /\ pc' = IF updates_batch # <<>> THEN "update" ELSE "summary"
    /\ UNCHANGED <<items_table, monitoring_table, now, db_items_by_link, db_items_by_id,
                   last_snapshots, section, scraped_data, idx, snapshots_batch,
                   updates_batch, i, inserted, update_calls, updated>>

\* where run() goes after an update call
PcAfterUpdate ==
    IF Len(update_calls) + 1 < Len(updates_batch) THEN "update" ELSE "summary"

\* _update_base_items_batch, the update of the next record succeeds
UpdateItem ==
    /\ pc = "update"
    /\ Len(update_calls) < Len(updates_batch)
    /\ LET update == updates_batch[Len(update_calls) + 1]
       IN  /\ update_calls' = Append(update_calls, update.id)
           /\ updated' = updated \cup {update}
    /\ stats' = [stats EXCEPT !.items_updated = @ + 1]
    /\ pc' = PcAfterUpdate
    /\ UNCHANGED <<items_table, monitoring_table, now, db_items_by_link, db_items_by_id,
                   last_snapshots, section, scraped_data, idx, snapshots_batch,
                   updates_batch, i, insert_calls, inserted>>

\* UpdateItemFail with the except clause outside the loop, as that of
\* _insert_snapshots_batch is: the first failure ends the updates
UpdateItemFail_Abort ==
    /\ pc = "update"
    /\ Len(update_calls) < Len(updates_batch)
    /\ update_calls' = Append(update_calls, updates_batch[Len(update_calls) + 1].id)
    /\ stats' = [stats EXCEPT !.errors = @ + 1]
    /\ pc' = "summary"
    /\ UNCHANGED <<items_table, monitoring_table, now, db_items_by_link, db_items_by_id,
                   last_snapshots, section, scraped_data, idx, snapshots_batch,
                   updates_batch, i, insert_calls, inserted, updated>>

\* _update_base_items_batch, the update of the next record raises: counted, and
\* the loop goes on
UpdateItemFail ==
    /\ pc = "update"
    /\ Len(update_calls) < Len(updates_batch)
    /\ update_calls' = Append(update_calls, updates_batch[Len(update_calls) + 1].id)
    /\ stats' = [stats EXCEPT !.errors = @ + 1]
    /\ pc' = PcAfterUpdate
    /\ UNCHANGED <<items_table, monitoring_table, now, db_items_by_link, db_items_by_id,
                   last_snapshots, section, scraped_data, idx, snapshots_batch,
                   updates_batch, i, insert_calls, inserted, updated>>

\* _print_stats: the final statistics
PrintStats ==
    /\ pc = "summary"
    /\ pc' = "done"
    /\ UNCHANGED <<items_table, monitoring_table, now, db_items_by_link, db_items_by_id,
                   last_snapshots, section, scraped_data, idx, snapshots_batch,
                   updates_batch, i, insert_calls, inserted, update_calls, updated, stats>>

----------------------------------------------------------------------------
(* The store and the specification of a run *)

\* a stored item of id n whose stored link is link
StoredItem(n, link, value, has_bid, auction_round, auction_date, is_active) ==
    [id |-> n, link |-> link, external_id |-> n, value |-> value, has_bid |-> has_bid,
     auction_round |-> auction_round, auction_date |-> auction_date,
     is_active |-> is_active, category |-> Some("imoveis"), city |-> Some("sp"),
     state |-> Some("SP"), auction_type |-> None]

\* a row of the monitoring table
StoredSnapshot(n, value, has_bid, auction_round, auction_date, is_active, snapshot_at) ==
    [item_id |-> n, current_value |-> value, has_bid |-> has_bid,
     auction_round |-> auction_round, auction_date |-> auction_date,
     is_active |-> is_active, snapshot_at |-> snapshot_at]

\* the stored item of listing a, its link stored with a trailing slash
ItemA ==
    StoredItem(1, Some(<<"h", "/", "a", "/">>), Some(100), Some(FALSE), Some(1),
               Some(IsoString(13, 0)), Some(TRUE))

\* the stored item of listing b, its link stored with a query string
ItemB ==
    StoredItem(2, Some(<<"h", "/", "b", "?", "utm">>), Some(100), Some(FALSE), Some(2),
               Some(IsoString(10, SaoPauloOffset)), Some(TRUE))

\* a stored item whose link is null
ItemNoLink == StoredItem(3, None, None, None, None, None, None)

\* the tables of stored items a run can meet
ItemsTables == {<<>>, <<ItemA, ItemB>>, <<ItemNoLink>>}

\* the monitoring rows of a run, latest first: two of item 1, and one of item 2
\* that an older schema wrote without is_active
MonitoringRows ==
    <<StoredSnapshot(1, Some(120), Some(FALSE), Some(2), Some(IsoString(13, 0)),
                     Some(TRUE), Some(IsoString(-24, 0))),
      Drop(StoredSnapshot(2, Some(100), Some(FALSE), Some(2),
                          Some(IsoString(10, SaoPauloOffset)), Some(TRUE),
                          Some(IsoString(-24, 0))), {"is_active"}),
      StoredSnapshot(1, Some(100), Some(FALSE), Some(1), Some(IsoString(13, 0)),
                     Some(TRUE), Some(IsoString(-48, 0)))>>

EmptyMap == <<>>

Init ==
    /\ pc = "load_items"
    /\ items_table \in ItemsTables
    /\ monitoring_table = MonitoringRows
    /\ now = 0
    /\ db_items_by_link = EmptyMap
    /\ db_items_by_id = EmptyMap
    /\ last_snapshots = EmptyMap
    /\ section = 1
    /\ scraped_data = <<>>
    /\ idx = 1
    /\ snapshots_batch = <<>>
    /\ updates_batch = <<>>
    /\ i = 0
    /\ insert_calls = <<>>
    /\ inserted = <<>>
    /\ update_calls = <<>>
    /\ updated = {}
    /\ stats = ZeroStats

Next ==
    \/ LoadDatabaseItemsFail
    \/ LoadDatabaseItems
    \/ LoadLastSnapshotsFail
    \/ LoadLastSnapshots
    \/ ScrapeFail
    \/ ScrapeSection
    \/ ProcessUnmatched
    \/ ProcessMatched
    \/ InsertChunk
    \/ InsertChunkFail
    \/ UpdateItem
    \/ UpdateItemFail
    \/ PrintStats

Spec == Init /\ [][Next]_vars

\* run() is sequential code: whatever step is next is taken
FairSpec == Spec /\ WF_vars(Next)

----------------------------------------------------------------------------
(* The match of one listing against every baseline: the stored item of     *)
(* listing a, with or without a last snapshot, the fields of either null,  *)
(* absent or present, and every card of the listing.                       *)

BaselineValues == {None, Some(0), Some(100)}
BaselineBids == {Some(FALSE), Some(TRUE)}
BaselineRounds == {None, Some(2)}
\* the store's dates: none, as the run wrote it, and as the store gives it back in UTC
BaselineDates == {None, Some(IsoString(10, SaoPauloOffset)), Some(IsoString(13, 0))}
BaselineActive == {Some(FALSE), Some(TRUE)}

\* snapshot_at of a last snapshot: null, unparsable, or an instant around the clock
SnapshotAts ==
    {None, Some([wall |-> 0, off |-> 0, ok |-> FALSE])}
        \cup {Some(IsoString(t, 0)) : t \in {0, MaxNow + 1}}

\* the stored link of listing a
LinkA == Some(<<"h", "/", "a">>)

\* the stored items whose every key is present
FullItems ==
    {StoredItem(1, LinkA, v, hb, r, d, a) :
        v \in BaselineValues, hb \in BaselineBids, r \in BaselineRounds,
        d \in BaselineDates, a \in BaselineActive}

\* the keys a stored item may lack
ItemDrops ==
    {{}, {"has_bid"}, {"is_active"}, {"external_id"},
     {"value", "auction_round", "auction_date", "category"}}

\* the stored item met together with a last snapshot: no field of it is the
\* snapshot's
ItemBehindSnapshot ==
    StoredItem(1, LinkA, Some(70), None, Some(1), Some(IsoString(20, 0)), None)

\* the last snapshots whose every key is present
FullSnapshots ==
    {StoredSnapshot(1, v, hb, r, d, a, at) :
        v \in BaselineValues, hb \in BaselineBids, r \in BaselineRounds,
        d \in BaselineDates, a \in BaselineActive, at \in SnapshotAts}

\* the last snapshots that lack one key
PartialSnapshots ==
    {Drop(StoredSnapshot(1, Some(100), Some(FALSE), Some(2),
                         Some(IsoString(13, 0)), Some(TRUE), Some(IsoString(0, 0))), {k}) :
        k \in BaselineKeys \cup {"snapshot_at"}}

\* the cards of listing a
CardsOfA ==
    {[href |-> Href("a"),
      active |-> Some([round |-> r, date |-> dt, value |-> v]),
      first_passed |-> Some([date |-> None, value |-> Some(200)]),
      bids |-> b,
      closed |-> c] :
        r \in {1, 2}, dt \in {None, Some([wall |-> 10, valid |-> TRUE])},
        v \in {None, Some(0), Some(100), Some(150)}, b \in {Some(0), Some(1)},
        c \in BOOLEAN}

\* the store of one stored item and at most one monitoring row, loaded, and one
\* card scraped
SnapshotInit ==
    /\ pc = "match"
    /\ \E item \in {Drop(f, K) : f \in FullItems, K \in ItemDrops} \cup {ItemBehindSnapshot} :
          /\ items_table = <<item>>
          /\ IF item = ItemBehindSnapshot
             THEN \E snap \in FullSnapshots \cup PartialSnapshots :
                     monitoring_table = <<snap>>
             ELSE monitoring_table = <<>>
    /\ now \in 0..MaxNow
    /\ db_items_by_link = IndexByLink(items_table, EmptyMap)
    /\ db_items_by_id = IndexById(items_table, EmptyMap)
    /\ last_snapshots = FirstSeen(monitoring_table, DOMAIN db_items_by_id, EmptyMap)
    /\ section = NumSections + 1
    /\ \E card \in CardsOfA : scraped_data = ParseCards(<<card>>)
    /\ idx = 1
    /\ snapshots_batch = <<>>
    /\ updates_batch = <<>>
    /\ i = 0
    /\ insert_calls = <<>>
    /\ inserted = <<>>
    /\ update_calls = <<>>
    /\ updated = {}
    /\ stats = [ZeroStats EXCEPT !.items_scraped = 1, !.pages_scraped = 1]

SnapshotSpec == SnapshotInit /\ [][ProcessMatched]_vars

----------------------------------------------------------------------------
(* Properties of the persistence phases and of the run *)

\* the number of chunks of n records
NumChunks(n) == (n + batch_size - 1) \div batch_size

RECURSIVE ConfirmedRecords(_)
\* the records of the chunks whose bulk-insert call succeeded
ConfirmedRecords(calls) ==
    IF calls = <<>> THEN 0
    ELSE (IF Head(calls)[2] THEN Len(Chunk(snapshots_batch, Head(calls)[1])) ELSE 0)
         + ConfirmedRecords(Tail(calls))

InsertFailed == \E n \in 1..Len(insert_calls) : ~insert_calls[n][2]

\* C1: when the run is over one bulk-insert call has been issued for every chunk
\* of the snapshot batch, whichever calls failed, and the store holds the records
\* of every chunk whose call succeeded
C1_EveryChunkAttempted ==
    pc = "done" =>
        /\ Len(insert_calls) = NumChunks(Len(snapshots_batch))
        /\ \A n \in 1..Len(insert_calls) : insert_calls[n][1] = (n - 1) * batch_size
        /\ Len(inserted) = ConfirmedRecords(insert_calls)

\* C2: at the end of a run snapshots_created is the number of records of the
\* chunks whose bulk-insert call succeeded
C2_ConfirmedAccounting ==
    pc = "done" => stats.snapshots_created = ConfirmedRecords(insert_calls)

\* the errors counted before the first update call: one for every snapshot that
\* could not be built, and the whole batch when an insert failed
ErrorsBeforeUpdate ==
    (stats.items_matched - Len(snapshots_batch))
        + (IF InsertFailed THEN Len(snapshots_batch) ELSE 0)

\* C3: the update calls are issued one per record of the batch, in its order;
\* every call counts in items_updated or in errors, so the two add up to the
\* calls issued, and when the updates are over every record has had its call
C3_UpdateAccounting ==
    pc \in {"update", "summary", "done"} =>
        /\ Len(update_calls) <= Len(updates_batch)
        /\ \A n \in 1..Len(update_calls) : update_calls[n] = updates_batch[n].id
        /\ stats.items_updated + (stats.errors - ErrorsBeforeUpdate) = Len(update_calls)
        /\ stats.items_updated >= Cardinality(updated)
        /\ pc \in {"summary", "done"} => Len(update_calls) = Len(updates_batch)

\* a run over, of at least three updates of which some failed and some succeeded
C3_Witness ==
    /\ pc = "done"
    /\ Len(updates_batch) >= 3
    /\ Len(update_calls) = Len(updates_batch)
    /\ stats.items_updated >= 1
    /\ stats.items_updated < Len(update_calls)

\* C4: every run ends, with the statistics printed or aborted, and only the
\* load of the stored items aborts it
C4_RunCompletes ==
    /\ <>(pc = "done" \/ pc = "aborted")
    /\ [][pc' = "aborted" => pc = "load_items"]_vars

\* a run that printed its statistics though the last snapshots could not be
\* loaded, an insert failed and an update failed
C4_Witness ==
    /\ pc = "done"
    /\ DOMAIN db_items_by_id # {}
    /\ DOMAIN last_snapshots = {}
    /\ InsertFailed
    /\ stats.items_updated < Len(update_calls)

\* the stats counters other than k are unchanged
StatsUnchangedBut(k) == \A f \in (DOMAIN stats) \ {k} : stats'[f] = stats[f]

\* C5: a step of the match loop on a listing whose link is not a key of the
\* stored index adds 1 to items_new and changes no other counter and no batch
C5_UnmatchedIsNew ==
    [][(/\ pc = "match"
        /\ idx <= Len(scraped_data)
        /\ idx' = idx + 1
        /\ scraped_data[idx].link \notin DOMAIN db_items_by_link)
       => /\ stats'.items_new = stats.items_new + 1
          /\ StatsUnchangedBut("items_new")
          /\ UNCHANGED <<snapshots_batch, updates_batch>>]_vars

\* an unmatched listing has been processed after a matched one
C5_Witness ==
    /\ stats.items_new >= 1
    /\ stats.items_matched >= 1
    /\ scraped_data[idx - 1].link \notin DOMAIN db_items_by_link

----------------------------------------------------------------------------
(* Properties of the match of a listing *)

\* a step of the match loop on a listing whose link is a key of the stored index
MatchedStep ==
    /\ pc = "match"
    /\ idx <= Len(scraped_data)
    /\ idx' = idx + 1
    /\ scraped_data[idx].link \in DOMAIN db_items_by_link

\* the stored item the listing of the step matches, and its last snapshot
StepItem == db_items_by_link[scraped_data[idx].link]
StepLastSnap == LastSnapOf(StepItem)

\* the step appended a snapshot
SnapshotAppended == Len(snapshots_batch') = Len(snapshots_batch) + 1

\* the baseline field k as the two-tier rule of the baseline resolver gives it:
\* the last snapshot's when there is one and it has the field, else the stored
\* item's field stored_key, default when the stored item has none
TwoTierField(db_item, last_snap, k, stored_key, default) ==
    IF last_snap # None /\ k \in DOMAIN Val(last_snap)
    THEN Val(last_snap)[k]
    ELSE Get(db_item, stored_key, default)

TwoTierBaseline(db_item, last_snap) ==
    [current_value |-> TwoTierField(db_item, last_snap, "current_value", "value", None),
     has_bid |-> TwoTierField(db_item, last_snap, "has_bid", "has_bid", Some(FALSE)),
     auction_round |->
        TwoTierField(db_item, last_snap, "auction_round", "auction_round", None),
     auction_date |->
        TwoTierField(db_item, last_snap, "auction_date", "auction_date", None),
     is_active |-> TwoTierField(db_item, last_snap, "is_active", "is_active", Some(TRUE))]

\* C6: a step of the match loop on a matched listing adds 1 to items_matched and
\* appends one snapshot, of the matched item's id, and one update, of the same
\* id; no snapshot fails to build, so errors is unchanged
C6_MatchedAppendsBoth ==
    [][MatchedStep
       => /\ stats'.items_matched = stats.items_matched + 1
          /\ stats'.errors = stats.errors
          /\ SnapshotAppended
          /\ Last(snapshots_batch').item_id = StepItem["id"]
          /\ updates_batch' = Append(updates_batch, Last(updates_batch'))
          /\ Last(updates_batch').id = StepItem["id"]]_vars

\* C7: the baseline the snapshot of a matched listing is built against is the
\* two-tier one: field by field the last snapshot's, the stored item's where the
\* last snapshot has no such field or there is no last snapshot
C7_TwoTierPerField ==
    [][MatchedStep
       => ResolveBaseline(StepItem, StepLastSnap)
             = Some(TwoTierBaseline(StepItem, StepLastSnap))]_vars

\* value_change as claimed: null exactly when a value is null, else the difference
ClaimedValueChange(old_value, new_value) ==
    IF old_value = None \/ new_value = None THEN None
    ELSE Some(Val(new_value) - Val(old_value))

\* C8: the value_change of every snapshot built is null when the baseline's or
\* the scraped current value is null and their difference otherwise, a value of 0
\* and a difference of 0 included
C8_ValueChange ==
    [][(MatchedStep /\ SnapshotAppended)
       => Last(snapshots_batch').value_change
             = ClaimedValueChange(TwoTierBaseline(StepItem, StepLastSnap).current_value,
                                  scraped_data[idx].value)]_vars

\* the instant of an optional date
InstantOf(date) == IF date = None THEN None ELSE Some(Instant(Val(date)))

\* C9: the auction_date_changed of every snapshot built tells whether the scraped
\* and the baseline auction dates are different instants, or one only is absent
C9_DateChangedByInstant ==
    [][(MatchedStep /\ SnapshotAppended)
       => Last(snapshots_batch').auction_date_changed
             = (InstantOf(scraped_data[idx].auction_date)
                  # InstantOf(TwoTierBaseline(StepItem, StepLastSnap).auction_date))]_vars

\* value_velocity as claimed from a snapshot's value_change and hours
ClaimedVelocity(value_change, hours) ==
    IF hours = None \/ Val(hours) <= 0 \/ value_change = None THEN None
    ELSE Some(Frac(Val(value_change), Val(hours)))

\* C10: the value_velocity of every snapshot built is null when its
\* hours_since_last_snapshot is null or not positive, and its value_change over
\* its hours when both are present and the hours positive, 0 for no change
C10_Velocity ==
    [][(MatchedStep /\ SnapshotAppended)
       => Last(snapshots_batch').value_velocity
             = ClaimedVelocity(Last(snapshots_batch').value_change,
                               Last(snapshots_batch').hours_since_last_snapshot)]_vars

----------------------------------------------------------------------------
(* The specification of the identity normalizer: one stored link and one      *)
(* scraped link, drawn from every url of a bounded length                     *)

\* the longest url, in tokens
MaxUrlLen == 4

\* the tokens of a url: scheme and host, a path segment, and the two separators
UrlTokens == {"h", "a", "/", "?"}

\* every url of at most MaxUrlLen tokens
Urls == UNION {[1..n -> UrlTokens] : n \in 0..MaxUrlLen}

\* the hrefs scraped against the stored link url: the url, the url followed by a
\* query string, by a slash, and by one more segment
HrefsOf(url) ==
    {url, url \o <<"?", "x">>, url \o <<"/">>, url \o <<"a">>} \ {<<>>}

\* the store of one stored item of any link, loaded, and one card scraped
LinkInit ==
    /\ pc = "match"
    /\ \E url \in Urls :
          /\ items_table = <<StoredItem(1, Some(url), Some(100), Some(FALSE), Some(1),
                                        Some(IsoString(13, 0)), Some(TRUE))>>
          /\ \E href \in HrefsOf(url) :
                scraped_data = ParseCards(<<[SiteCard("a", Some(100), None, FALSE)
                                                EXCEPT !.href = Some(href)]>>)
    /\ monitoring_table = <<>>
    /\ now = 0
    /\ db_items_by_link = IndexByLink(items_table, EmptyMap)
    /\ db_items_by_id = IndexById(items_table, EmptyMap)
    /\ last_snapshots = FirstSeen(monitoring_table, DOMAIN db_items_by_id, EmptyMap)
    /\ section = NumSections + 1
    /\ idx = 1
    /\ snapshots_batch = <<>>
    /\ updates_batch = <<>>
    /\ i = 0
    /\ insert_calls = <<>>
    /\ inserted = <<>>
    /\ update_calls = <<>>
    /\ updated = {}
    /\ stats = [ZeroStats EXCEPT !.items_scraped = 1, !.pages_scraped = 1]

LinkSpec == LinkInit /\ [][ProcessMatched \/ ProcessUnmatched]_vars

----------------------------------------------------------------------------
(* Claim C11 *)

\* the url without its query string, when it has one
QueryCut(url) ==
    {SubSeq(url, 1, n - 1) : n \in {m \in 1..Len(url) : url[m] = "?"}}

\* the url without its one trailing slash, when it has one
SlashCut(url) ==
    IF url # <<>> /\ Last(url) = "/" THEN {SubSeq(url, 1, Len(url) - 1)} ELSE {}

\* the links that differ from url only by a query string or one trailing slash
DifferOnly(url) ==
    {url, url \o <<"?", "x">>, url \o <<"/">>} \cup QueryCut(url) \cup SlashCut(url)

\* the stored links of the run
StoredLinks == {Val(items_table[n].link) : n \in 1..Len(items_table)}

\* C11: for every url, the normalizer gives the url followed by a query string,
\* the url itself and the url followed by a slash the same key; and a scraped
\* link that differs from a stored link only by a query string or one trailing
\* slash has its key in the index of stored links, and its listing is matched,
\* never counted as new.
C11_NormalizeAbsorbs ==
    \A url \in StoredLinks :
        /\ Normalize(url \o <<"?", "x">>) = Normalize(url)
        /\ Normalize(url) = Normalize(url \o <<"/">>)
        /\ \A link \in DifferOnly(url) :
              /\ Normalize(link) \in DOMAIN db_items_by_link
              /\ \A n \in 1..Len(scraped_data) :
                    scraped_data[n].link = Normalize(link) =>
                        stats.items_matched + stats.items_new = 0
                        \/ (stats.items_matched = 1 /\ Len(updates_batch) = 1)

\* a listing was matched whose scraped link carries a query string that the
\* stored link lacks, and whose stored link ends in two slashes
C11_Witness ==
    /\ stats.items_matched = 1
    /\ items_table[1].link = Some(<<"h", "a", "/", "/">>)
    /\ scraped_data[1].link = <<"h", "a">>

----------------------------------------------------------------------------
(* Claim C12 *)

\* what the clock may read at a second reconciliation: any hour of the first
\* one's, or a day later
ClockReadings == 0..MaxNow \cup {t + 24 : t \in 0..MaxNow}

\* the snapshot of the step's listing, built again at clock t from the same
\* listing, stored index and snapshot index
SecondSnapshot(t) == CreateSnapshot(StepItem, scraped_data[idx], StepLastSnap, t)

\* the two payloads agree in every field but those of K
SameBut(first, second, K) ==
    /\ DOMAIN first = DOMAIN second
    /\ \A f \in (DOMAIN first) \ K : first[f] = second[f]

\* C12: reconciling the same listing twice, nothing persisted in between, gives
\* a snapshot both times or neither time, and the two snapshot payloads are
\* identical in every field other than snapshot_at, whatever the clock reads
\* at each run.
C12_IdempotentButSnapshotAt ==
    [][MatchedStep =>
        \A t \in ClockReadings :
            IF SnapshotAppended
            THEN /\ SecondSnapshot(t) # None
                 /\ SameBut(Last(snapshots_batch'), Val(SecondSnapshot(t)), {"snapshot_at"})
            ELSE SecondSnapshot(t) = None]_vars

----------------------------------------------------------------------------
(* Claim C13 *)

\* the listings the match loop has processed so far
Processed == idx - 1

\* the match loop is over
MatchOver == pc \in {"insert", "update", "summary", "done"}

\* C13: after any prefix of the scraped listings has been processed,
\* items_matched + items_new is the number of listings processed so far, the
\* update batch holds exactly items_matched entries and the snapshot batch at
\* most items_matched entries; once the loop is over every listing has been
\* processed and the sum is items_scraped.
C13_MatchAccounting ==
    /\ stats.items_matched + stats.items_new = Processed
    /\ Len(updates_batch) = stats.items_matched
    /\ Len(snapshots_batch) <= stats.items_matched
    /\ MatchOver =>
          /\ Processed = Len(scraped_data)
          /\ stats.items_matched + stats.items_new = stats.items_scraped

\* the loop is between two listings, having met a new listing, a matched one
\* whose snapshot was built and a matched one whose snapshot was not
C13_Witness ==
    /\ pc = "match"
    /\ idx <= Len(scraped_data)
    /\ stats.items_new >= 1
    /\ Len(snapshots_batch) >= 1
    /\ Len(snapshots_batch) < stats.items_matched

----------------------------------------------------------------------------
(* Claim C14 *)

\* the ids of the records of the update batch, in order
UpdateIds == [n \in 1..Len(updates_batch) |-> updates_batch[n].id]

\* the item of id n has a snapshot among those of snapshots
HasSnapshot(snapshots, n) == \E k \in 1..Len(snapshots) : snapshots[k].item_id = n

\* C14: the two persistence phases are ordered and independent.  No update of
\* a base record is issued before the insert phase is over (every chunk was
\* issued, or an insert failed and ended the phase), and no chunk insert is
\* issued after an update; and once the run reaches its summary an update has
\* been attempted for every matched listing, in order, whether or not its
\* snapshot was built and whether or not its chunk insert succeeded.
C14_PhasesOrderedIndependent ==
    /\ [](update_calls # <<>> =>
            /\ pc \in {"update", "summary", "done"}
            /\ i >= Len(snapshots_batch) \/ InsertFailed)
    /\ [][insert_calls' # insert_calls => update_calls' = <<>>]_vars
    /\ [](pc \in {"summary", "done"} =>
            /\ update_calls = UpdateIds
            /\ Len(update_calls) = stats.items_matched)

\* a run ended with no snapshot persisted, the stored item 1 updated to the
\* scraped value although the insert of its snapshot's chunk failed, and the
\* stored item 2 updated although its snapshot was never built
C14_Witness ==
    /\ pc = "done"
    /\ inserted = <<>>
    /\ InsertFailed
    /\ \E u \in updated :
          /\ u.id = 1
          /\ u.value = Some(150)
          /\ u.value # items_table[1].value
          /\ HasSnapshot(snapshots_batch, 1)
    /\ \E u \in updated : u.id = 2 /\ ~HasSnapshot(snapshots_batch, 2)

====
